---- MODULE Spec2Model ----
(***************************************************************************)
(* OperationsComponent of src/components/operations.rs: four tabular       *)
(* sub-views (new_user, del_user, new_graph, del_graph) showing a table's  *)
(* columns, constraints, foreign keys and indexes, a Focus naming the      *)
(* active tab, the asynchronous refresh `update`, the key router `event`,  *)
(* `draw` and `commands`.                                                  *)
(*                                                                         *)
(* `update` is an async fn: it runs from one await to the next, so it is   *)
(* modelled as one action per stretch of code between suspension points,   *)
(* with pc naming the provider call the future is suspended at.  The       *)
(* future borrows the component mutably, so event, draw and commands run   *)
(* only while no refresh is in flight (pc = "idle").  Dropping the future  *)
(* at an await ends the refresh there; a future dropped before its first   *)
(* poll has run no code and changes nothing.                               *)
(***************************************************************************)
EXTENDS Integers, Sequences, FiniteSets, TLC

VARIABLES
    new_user,     \* TableComponent of the Columns tab
    del_user,     \* TableComponent of the Constraints tab
    new_graph,    \* TableComponent of the Foreign Keys tab
    del_graph,    \* TableComponent of the Indexes tab
    focus,        \* Focus
    key_config,   \* KeyConfig
    pc,           \* where the update future is suspended, or "idle"
    obs           \* what the caller and the collaborators saw of the last call

vars == <<new_user, del_user, new_graph, del_graph, focus, key_config, pc, obs>>

(***************************************************************************)
(* Bounds                                                                  *)
(***************************************************************************)
\* longest sequence of records a provider call answers with
MaxRecords == 2

(***************************************************************************)
(* Focus, the metadata kinds and the keys                                  *)
(***************************************************************************)
Focus == {"NewUser", "DelUser", "NewGraph", "DelGraph"}

\* the four metadata kinds, in the order update fetches them
Kinds == {"columns", "constraints", "foreign_keys", "indexes"}
KindOrder == <<"columns", "constraints", "foreign_keys", "indexes">>

\* the provider call update is suspended at while fetching each kind
CallOf(k) ==
    CASE k = "columns"      -> "get_columns"
      [] k = "constraints"  -> "get_constraints"
      [] k = "foreign_keys" -> "get_foreign_keys"
      [] k = "indexes"      -> "get_indexes"

Keys == {"y", "2", "3", "4", "5"}

\* Key configurations the component is constructed with: one with five
\* distinct shortcuts, one in which shortcuts share keys (and two keys are
\* no shortcut).
KeyConfigs ==
    { [copy |-> "y", tab_columns |-> "2", tab_constraints |-> "3",
       tab_foreign_keys |-> "4", tab_indexes |-> "5"],
      [copy |-> "y", tab_columns |-> "2", tab_constraints |-> "2",
       tab_foreign_keys |-> "4", tab_indexes |-> "y"] }

Databases == {"app_db"}
Tables == {"users", "orders"}

(***************************************************************************)
(* Metadata records (the TableRow trait of the provider)                   *)
(***************************************************************************)
\* number of fields of a record of each kind
Arity(k) == IF k \in {"columns", "foreign_keys"} THEN 2 ELSE 1

\* c.fields(): the field names of a record
fields(c) == [i \in 1..Arity(c.kind) |-> <<c.kind, 0, i>>]

\* c.columns(): the cells of a record (ord, the record's place in the
\* provider's data, is at least 1, so no cell is a field name)
columns(c) == [i \in 1..Arity(c.kind) |-> <<c.kind, c.ord, i>>]

\* what a provider call for kind k may answer with when it succeeds
Responses(k) ==
    { [i \in 1..n |-> [kind |-> k, ord |-> i]] : n \in 0..MaxRecords }

(***************************************************************************)
(* TableComponent (the tabular sub-view)                                   *)
(*                                                                         *)
(* What a sub-view holds is its rows and its header.  Its selection and    *)
(* scroll position are its own: the component never sets them, it only     *)
(* asks selected_cells(), so they are modelled by the answers the sub-view *)
(* may give.  The database and table handed to update only title the view. *)
(***************************************************************************)
TableComponent_new == [rows |-> <<>>, headers |-> <<>>]

TableComponent_reset(t) == TableComponent_new

TableComponent_update(t, rows, headers, database, table) ==
    [rows |-> rows, headers |-> headers]

\* selected_cells(): None is <<>>, Some(text) is <<text>>; the text is that
\* of one of the rows the view holds
selected_cells(t) == {<<>>} \cup { <<t.rows[i]>> : i \in 1..Len(t.rows) }

\* event(key): Ok(Consumed), Ok(NotConsumed) or an error
TableComponent_event(t, key) == {"Consumed", "NotConsumed", "Err"}

\* draw(f, area, focused): Ok(()) or an error
TableComponent_draw(t, focused) == {"Ok", "Err"}

\* copy_to_clipboard(text): Ok(()) or an error
copy_to_clipboard(text) == {"Ok", "Err"}

(***************************************************************************)
(* OperationsComponent                                                     *)
(***************************************************************************)
Init ==
    /\ new_user = TableComponent_new
    /\ del_user = TableComponent_new
    /\ new_graph = TableComponent_new
    /\ del_graph = TableComponent_new
    /\ focus = "NewUser"
    /\ key_config \in KeyConfigs
    /\ pc = "idle"
    /\ obs = [op |-> "new"]

focused_component ==
    CASE focus = "NewUser"  -> new_user
      [] focus = "DelUser"  -> del_user
      [] focus = "NewGraph" -> new_graph
      [] focus = "DelGraph" -> del_graph

----
\* mutant: the rows are collected in reverse order
Rows_Reversed(records) ==
    [i \in 1..Len(records) |-> columns(records[Len(records) + 1 - i])]

\* update: the rows handed to a sub-view, one per record, in provider order
Rows(records) == [i \in 1..Len(records) |-> columns(records[i])]

\* update: the header handed to a sub-view, the first record's field names
Header(records) == fields(records[1])

\* mutant: the rows are replaced and the header is left as it was
Populate_RowsOnly(t, records, database, table) ==
    IF records # <<>>
    THEN [TableComponent_update(t, Rows(records), Header(records), database, table)
            EXCEPT !.headers = t.headers]
    ELSE t

\* update: what one kind's block does with the provider's answer
Populate(t, records, database, table) ==
    IF records # <<>>
    THEN TableComponent_update(t, Rows(records), Header(records), database, table)
    ELSE t

NoAnswer == [st |-> "none", records |-> <<>>]

\* the four sub-views as update finds them
Contents ==
    [k \in Kinds |->
        CASE k = "columns"      -> new_user
          [] k = "constraints"  -> del_user
          [] k = "foreign_keys" -> new_graph
          [] k = "indexes"      -> del_graph]

\* mutant: the provider is asked about the table "users" whatever table
\* update was called with
Issue_FixedTable(o, k) ==
    [o EXCEPT !.calls = Append(@, [call |-> CallOf(k), database |-> o.database,
                                   table |-> "users"]),
              !.reset = @ \cup {k}]

\* the provider call update reaches next: it is issued with update's own
\* database and table, and the kind's sub-view has just been reset
Issue(o, k) ==
    [o EXCEPT !.calls = Append(@, [call |-> CallOf(k), database |-> o.database,
                                   table |-> o.table]),
              !.reset = @ \cup {k}]

\* the provider's answer to the pending call.  pre is what the sub-views held
\* when update began; it is kept for the kinds not answered Ok yet and for
\* the kind answered Ok last.
Answer(o, k, st, records) ==
    [o EXCEPT !.resp[k] = [st |-> st, records |-> records],
              !.pre = IF st = "ok"
                      THEN [j \in {i \in DOMAIN @ : o.resp[i].st = "none"} |-> @[j]]
                      ELSE @]

\* mutant: get_columns is called before new_user is reset
Update_FetchesFirst(database, table) ==
    /\ pc = "idle"
    /\ new_user' = new_user
    /\ pc' = "get_columns"
    /\ obs' = Issue([op |-> "update", database |-> database, table |-> table,
                     calls |-> <<>>, reset |-> {}, pre |-> Contents,
                     resp |-> [k \in Kinds |-> NoAnswer], result |-> "Pending"],
                    "columns")
    /\ UNCHANGED <<del_user, new_graph, del_graph, focus, key_config>>

\* update up to its first await: new_user.reset(), pool.get_columns(..)
Update(database, table) ==
    /\ pc = "idle"
    /\ new_user' = TableComponent_reset(new_user)
    /\ pc' = "get_columns"
    /\ obs' = Issue([op |-> "update", database |-> database, table |-> table,
                     calls |-> <<>>, reset |-> {}, pre |-> Contents,
                     resp |-> [k \in Kinds |-> NoAnswer], result |-> "Pending"],
                    "columns")
    /\ UNCHANGED <<del_user, new_graph, del_graph, focus, key_config>>

\* mutant: the remaining sub-views are all reset before get_constraints
GetColumnsOk_ResetsAhead(cols) ==
    /\ pc = "get_columns"
    /\ new_user' = Populate(new_user, cols, obs.database, obs.table)
    /\ del_user' = TableComponent_reset(del_user)
    /\ new_graph' = TableComponent_reset(new_graph)
    /\ del_graph' = TableComponent_reset(del_graph)
    /\ pc' = "get_constraints"
    /\ obs' = [Issue(Answer(obs, "columns", "ok", cols), "constraints") EXCEPT
                  !.reset = Kinds]
    /\ UNCHANGED <<focus, key_config>>

\* get_columns answered Ok: populate new_user, del_user.reset(), get_constraints
GetColumnsOk(cols) ==
    /\ pc = "get_columns"
    /\ new_user' = Populate(new_user, cols, obs.database, obs.table)
    /\ del_user' = TableComponent_reset(del_user)
    /\ pc' = "get_constraints"
    /\ obs' = Issue(Answer(obs, "columns", "ok", cols), "constraints")
    /\ UNCHANGED <<new_graph, del_graph, focus, key_config>>

\* mutant: the constraints are populated only when there were columns
GetConstraintsOk_NeedsColumns(constraints) ==
    /\ pc = "get_constraints"
    /\ del_user' = IF obs.resp["columns"].records = <<>> THEN del_user
                   ELSE Populate(del_user, constraints, obs.database, obs.table)
    /\ new_graph' = TableComponent_reset(new_graph)
    /\ pc' = "get_foreign_keys"
    /\ obs' = Issue(Answer(obs, "constraints", "ok", constraints), "foreign_keys")
    /\ UNCHANGED <<new_user, del_graph, focus, key_config>>

\* get_constraints answered Ok: populate del_user, new_graph.reset(),
\* get_foreign_keys
GetConstraintsOk(constraints) ==
    /\ pc = "get_constraints"
    /\ del_user' = Populate(del_user, constraints, obs.database, obs.table)
    /\ new_graph' = TableComponent_reset(new_graph)
    /\ pc' = "get_foreign_keys"
    /\ obs' = Issue(Answer(obs, "constraints", "ok", constraints), "foreign_keys")
    /\ UNCHANGED <<new_user, del_graph, focus, key_config>>

\* mutant: del_graph is not reset before get_indexes
GetForeignKeysOk_NoReset(foreign_keys) ==
    /\ pc = "get_foreign_keys"
    /\ new_graph' = Populate(new_graph, foreign_keys, obs.database, obs.table)
    /\ del_graph' = del_graph
    /\ pc' = "get_indexes"
    /\ obs' = Issue(Answer(obs, "foreign_keys", "ok", foreign_keys), "indexes")
    /\ UNCHANGED <<new_user, del_user, focus, key_config>>

\* get_foreign_keys answered Ok: populate new_graph, del_graph.reset(),
\* get_indexes
GetForeignKeysOk(foreign_keys) ==
    /\ pc = "get_foreign_keys"
    /\ new_graph' = Populate(new_graph, foreign_keys, obs.database, obs.table)
    /\ del_graph' = TableComponent_reset(del_graph)
    /\ pc' = "get_indexes"
    /\ obs' = Issue(Answer(obs, "foreign_keys", "ok", foreign_keys), "indexes")
    /\ UNCHANGED <<new_user, del_user, focus, key_config>>

\* mutant: a refresh that succeeds puts the focus back on the first tab
GetIndexesOk_FocusesColumns(indexes) ==
    /\ pc = "get_indexes"
    /\ del_graph' = Populate(del_graph, indexes, obs.database, obs.table)
    /\ pc' = "idle"
    /\ obs' = [Answer(obs, "indexes", "ok", indexes) EXCEPT !.result = "Ok"]
    /\ focus' = "NewUser"
    /\ UNCHANGED <<new_user, del_user, new_graph, key_config>>

\* get_indexes answered Ok: populate del_graph, return Ok(())
GetIndexesOk(indexes) ==
    /\ pc = "get_indexes"
    /\ del_graph' = Populate(del_graph, indexes, obs.database, obs.table)
    /\ pc' = "idle"
    /\ obs' = [Answer(obs, "indexes", "ok", indexes) EXCEPT !.result = "Ok"]
    /\ UNCHANGED <<new_user, del_user, new_graph, focus, key_config>>

\* the kind whose provider call is pending
Pending == CHOOSE k \in Kinds : CallOf(k) = pc

\* mutant: a failed fetch clears every sub-view
ProviderErr_ClearsAll ==
    /\ pc # "idle"
    /\ pc' = "idle"
    /\ obs' = [Answer(obs, Pending, "err", <<>>) EXCEPT !.result = "Err"]
    /\ new_user' = TableComponent_new
    /\ del_user' = TableComponent_new
    /\ new_graph' = TableComponent_new
    /\ del_graph' = TableComponent_new
    /\ UNCHANGED <<focus, key_config>>

\* mutant: a failed fetch is taken for an empty answer and update goes on
\* with the blocks that follow
ProviderErr_GoesOn ==
    /\ pc # "idle"
    /\ obs' = [Answer(obs, Pending, "err", <<>>) EXCEPT
                  !.result = "Err",
                  !.reset = Kinds,
                  !.calls = @ \o [i \in 1..(Len(KindOrder) - Len(@)) |->
                                    [call |-> CallOf(KindOrder[Len(@) + i]),
                                     database |-> obs.database,
                                     table |-> obs.table]]]
    /\ pc' = "idle"
    /\ new_user' = IF "columns" \in obs.reset THEN new_user ELSE TableComponent_new
    /\ del_user' = IF "constraints" \in obs.reset THEN del_user ELSE TableComponent_new
    /\ new_graph' = IF "foreign_keys" \in obs.reset THEN new_graph ELSE TableComponent_new
    /\ del_graph' = IF "indexes" \in obs.reset THEN del_graph ELSE TableComponent_new
    /\ UNCHANGED <<focus, key_config>>

\* the pending provider call answered Err: the ? returns it from update
ProviderErr ==
    /\ pc # "idle"
    /\ pc' = "idle"
    /\ obs' = [Answer(obs, Pending, "err", <<>>) EXCEPT !.result = "Err"]
    /\ UNCHANGED <<new_user, del_user, new_graph, del_graph, focus, key_config>>

\* mutant: dropping the future puts back what the sub-views held
DropUpdate_RollsBack ==
    /\ pc # "idle"
    /\ pc' = "idle"
    /\ obs' = [obs EXCEPT !.result = "Dropped"]
    /\ new_user' = IF "columns" \in DOMAIN obs.pre THEN obs.pre["columns"] ELSE new_user
    /\ del_user' = IF "constraints" \in DOMAIN obs.pre THEN obs.pre["constraints"]
                   ELSE del_user
    /\ new_graph' = IF "foreign_keys" \in DOMAIN obs.pre THEN obs.pre["foreign_keys"]
                    ELSE new_graph
    /\ del_graph' = IF "indexes" \in DOMAIN obs.pre THEN obs.pre["indexes"] ELSE del_graph
    /\ UNCHANGED <<focus, key_config>>

\* the caller drops the update future while it is suspended at an await
DropUpdate ==
    /\ pc # "idle"
    /\ pc' = "idle"
    /\ obs' = [obs EXCEPT !.result = "Dropped"]
    /\ UNCHANGED <<new_user, del_user, new_graph, del_graph, focus, key_config>>

----
\* tab_names(): the four tabs with their labels, in display order
tab_names ==
    << <<"NewUser", "tab_new_user">>, <<"DelUser", "tab_del_user">>,
       <<"NewGraph", "tab_new_graph">>, <<"DelGraph", "tab_del_graph">> >>

\* mutant: the first tab is highlighted whatever the focus
Draw_HighlightsFirst(focused, sub) ==
    /\ pc = "idle"
    /\ obs' = [op |-> "draw",
               focused |-> focused,
               tab_list |-> [i \in 1..Len(tab_names) |->
                               [label |-> tab_names[i][2],
                                highlighted |-> i = 1]],
               dimmed |-> ~focused,
               trace |-> << [call |-> "draw", tab |-> focus, focused |-> focused] >>,
               ret |-> sub]
    /\ UNCHANGED <<new_user, del_user, new_graph, del_graph, focus, key_config, pc>>

\* draw: the tab list with the focused tab highlighted, the frame dimmed
\* when the widget is not focused, then the focused sub-view drawn with the
\* caller's flag; its error is returned by the ?
Draw(focused, sub) ==
    /\ pc = "idle"
    /\ obs' = [op |-> "draw",
               focused |-> focused,
               tab_list |-> [i \in 1..Len(tab_names) |->
                               [label |-> tab_names[i][2],
                                highlighted |-> tab_names[i][1] = focus]],
               dimmed |-> ~focused,
               trace |-> << [call |-> "draw", tab |-> focus, focused |-> focused] >>,
               ret |-> sub]
    /\ UNCHANGED <<new_user, del_user, new_graph, del_graph, focus, key_config, pc>>

\* commands: pushes the one advertised command onto the caller's list
Commands(out) ==
    /\ pc = "idle"
    /\ obs' = [op |-> "commands", out |-> Append(out, "toggle_property_tabs")]
    /\ UNCHANGED <<new_user, del_user, new_graph, del_graph, focus, key_config, pc>>

\* mutant: the indexes shortcut sets the foreign-keys tab
TabSwitch_WrongTab(key) ==
    IF key = key_config.tab_columns THEN "NewUser"
    ELSE IF key = key_config.tab_constraints THEN "DelUser"
    ELSE IF key = key_config.tab_foreign_keys THEN "NewGraph"
    ELSE IF key = key_config.tab_indexes THEN "NewGraph"
    ELSE focus

\* event: the focus after the tab-switch tests, which follow the copy test
TabSwitch(key) ==
    IF key = key_config.tab_columns THEN "NewUser"
    ELSE IF key = key_config.tab_constraints THEN "DelUser"
    ELSE IF key = key_config.tab_foreign_keys THEN "NewGraph"
    ELSE IF key = key_config.tab_indexes THEN "DelGraph"
    ELSE focus

\* mutant: the key goes to the sub-view of the tab its shortcut names
Forwarded_ToNewFocus(key) ==
    << [call |-> "event", tab |-> TabSwitch(key), key |-> key] >>

\* event: the calls made on the collaborators, in order
Forwarded(key) == << [call |-> "event", tab |-> focus, key |-> key] >>
Asked(selected) ==
    << [call |-> "selected_cells", tab |-> focus, answer |-> selected] >>
Copied(text) == << [call |-> "copy_to_clipboard", text |-> text] >>

\* mutant: event returns the EventState the sub-view answered
Seen_ReturnsSub(key, sub) ==
    [op |-> "event", key |-> key, sub |-> sub, trace |-> Forwarded(key),
     clipboard |-> "none", ret |-> sub]

\* event: what the caller and the collaborators see of a call that got as
\* far as forwarding the key; clipboard is the answer of copy_to_clipboard
Seen(key, sub) ==
    [op |-> "event", key |-> key, sub |-> sub, trace |-> Forwarded(key),
     clipboard |-> "none", ret |-> "NotConsumed"]

\* mutant: the copy shortcut copies an empty text when nothing is selected
Event_CopiesNothing(key) ==
    /\ pc = "idle"
    /\ \E sub \in TableComponent_event(focused_component, key) :
          IF sub = "Err"
          THEN /\ obs' = [Seen(key, sub) EXCEPT !.ret = "EventError"]
               /\ focus' = focus
          ELSE IF key = key_config.copy
          THEN /\ \E selected \in selected_cells(focused_component) :
                     LET text == IF selected = <<>> THEN <<>> ELSE selected[1]
                     IN  \E clipboard \in copy_to_clipboard(text) :
                            obs' = [Seen(key, sub) EXCEPT
                                      !.trace = @ \o Asked(selected) \o Copied(text),
                                      !.clipboard = clipboard,
                                      !.ret = IF clipboard = "Err"
                                              THEN "ClipboardError"
                                              ELSE "NotConsumed"]
               /\ focus' = focus
          ELSE /\ obs' = Seen(key, sub)
               /\ focus' = TabSwitch(key)
    /\ UNCHANGED <<new_user, del_user, new_graph, del_graph, key_config, pc>>

\* mutant: the selection is read before the key goes to the sub-view
Event_ReadsSelectionFirst(key) ==
    /\ pc = "idle"
    /\ \E sub \in TableComponent_event(focused_component, key) :
          IF key = key_config.copy
          THEN /\ \E selected \in selected_cells(focused_component) :
                     IF sub = "Err"
                     THEN obs' = [Seen(key, sub) EXCEPT
                                    !.trace = Asked(selected) \o @,
                                    !.ret = "EventError"]
                     ELSE IF selected = <<>>
                     THEN obs' = [Seen(key, sub) EXCEPT !.trace = Asked(selected) \o @]
                     ELSE \E clipboard \in copy_to_clipboard(selected[1]) :
                             obs' = [Seen(key, sub) EXCEPT
                                       !.trace = Asked(selected) \o @
                                                   \o Copied(selected[1]),
                                       !.clipboard = clipboard,
                                       !.ret = IF clipboard = "Err"
                                               THEN "ClipboardError"
                                               ELSE "NotConsumed"]
               /\ focus' = focus
          ELSE IF sub = "Err"
          THEN /\ obs' = [Seen(key, sub) EXCEPT !.ret = "EventError"]
               /\ focus' = focus
          ELSE /\ obs' = Seen(key, sub)
               /\ focus' = TabSwitch(key)
    /\ UNCHANGED <<new_user, del_user, new_graph, del_graph, key_config, pc>>

\* mutant: a failed clipboard write is swallowed
Event_SwallowsClipboardError(key) ==
    /\ pc = "idle"
    /\ \E sub \in TableComponent_event(focused_component, key) :
          IF sub = "Err"
          THEN /\ obs' = [Seen(key, sub) EXCEPT !.ret = "EventError"]
               /\ focus' = focus
          ELSE IF key = key_config.copy
          THEN /\ \E selected \in selected_cells(focused_component) :
                     IF selected = <<>>
                     THEN obs' = [Seen(key, sub) EXCEPT !.trace = @ \o Asked(selected)]
                     ELSE \E clipboard \in copy_to_clipboard(selected[1]) :
                             obs' = [Seen(key, sub) EXCEPT
                                       !.trace = @ \o Asked(selected)
                                                   \o Copied(selected[1]),
                                       !.clipboard = clipboard]
               /\ focus' = focus
          ELSE /\ obs' = Seen(key, sub)
               /\ focus' = TabSwitch(key)
    /\ UNCHANGED <<new_user, del_user, new_graph, del_graph, key_config, pc>>

\* mutant: the tab shortcuts are applied before the sub-view's error returns
Event_SwitchesBeforeError(key) ==
    /\ pc = "idle"
    /\ \E sub \in TableComponent_event(focused_component, key) :
          IF sub = "Err"
          THEN /\ obs' = [Seen(key, sub) EXCEPT !.ret = "EventError"]
               /\ focus' = IF key = key_config.copy THEN focus ELSE TabSwitch(key)
          ELSE IF key = key_config.copy
          THEN /\ \E selected \in selected_cells(focused_component) :
                     IF selected = <<>>
                     THEN obs' = [Seen(key, sub) EXCEPT !.trace = @ \o Asked(selected)]
                     ELSE \E clipboard \in copy_to_clipboard(selected[1]) :
                             obs' = [Seen(key, sub) EXCEPT
                                       !.trace = @ \o Asked(selected)
                                                   \o Copied(selected[1]),
                                       !.clipboard = clipboard,
                                       !.ret = IF clipboard = "Err"
                                               THEN "ClipboardError"
                                               ELSE "NotConsumed"]
               /\ focus' = focus
          ELSE /\ obs' = Seen(key, sub)
               /\ focus' = TabSwitch(key)
    /\ UNCHANGED <<new_user, del_user, new_graph, del_graph, key_config, pc>>

\* event: the key goes to the focused sub-view first (its error returns at
\* the ?, its EventState is dropped); then the copy shortcut copies the
\* selected cells, if any (the clipboard's error returns at the ?), else a
\* tab shortcut sets the focus; Ok(NotConsumed)
Event(key) ==
    /\ pc = "idle"
    /\ \E sub \in TableComponent_event(focused_component, key) :
          IF sub = "Err"
          THEN /\ obs' = [Seen(key, sub) EXCEPT !.ret = "EventError"]
               /\ focus' = focus
          ELSE IF key = key_config.copy
          THEN /\ \E selected \in selected_cells(focused_component) :
                     IF selected = <<>>
                     THEN obs' = [Seen(key, sub) EXCEPT !.trace = @ \o Asked(selected)]
                     ELSE \E clipboard \in copy_to_clipboard(selected[1]) :
                             obs' = [Seen(key, sub) EXCEPT
                                       !.trace = @ \o Asked(selected)
                                                   \o Copied(selected[1]),
                                       !.clipboard = clipboard,
                                       !.ret = IF clipboard = "Err"
                                               THEN "ClipboardError"
                                               ELSE "NotConsumed"]
               /\ focus' = focus
          ELSE /\ obs' = Seen(key, sub)
               /\ focus' = TabSwitch(key)
    /\ UNCHANGED <<new_user, del_user, new_graph, del_graph, key_config, pc>>

Next ==
    \/ \E database \in Databases, table \in Tables : Update(database, table)
    \/ \E cols \in Responses("columns") : GetColumnsOk(cols)
    \/ \E constraints \in Responses("constraints") : GetConstraintsOk(constraints)
    \/ \E foreign_keys \in Responses("foreign_keys") : GetForeignKeysOk(foreign_keys)
    \/ \E indexes \in Responses("indexes") : GetIndexesOk(indexes)
    \/ ProviderErr
    \/ DropUpdate
    \/ \E key \in Keys : Event(key)
    \/ \E focused \in BOOLEAN :
          \E sub \in TableComponent_draw(focused_component, focused) : Draw(focused, sub)
    \/ \E out \in {<<>>, <<"toggle_focus">>} : Commands(out)

Spec == Init /\ [][Next]_vars

(***************************************************************************)
(* Properties                                                              *)
(***************************************************************************)
\* the shortcut key_config gives each tab
ShortcutOf(tab) ==
    CASE tab = "NewUser"  -> key_config.tab_columns
      [] tab = "DelUser"  -> key_config.tab_constraints
      [] tab = "NewGraph" -> key_config.tab_foreign_keys
      [] tab = "DelGraph" -> key_config.tab_indexes

\* the tabs in the order event tests their shortcuts
TabOrder == <<"NewUser", "DelUser", "NewGraph", "DelGraph">>
TestedBefore(tab) ==
    {TabOrder[i] : i \in {j \in 1..Len(TabOrder) :
                            \E m \in 1..Len(TabOrder) : TabOrder[m] = tab /\ j < m}}

\* the last call was an event and returned Ok
EventReturned == obs.op = "event" /\ obs.ret = "NotConsumed"

\* the focus when the last event arrived
FocusBefore == obs.trace[1].tab

\* C1 as stated: Focus starts at the Columns tab (NewUser), and after an
\* event that was routed to the end and whose key is the shortcut of tab X,
\* Focus is X, whatever tab was focused before.
C1_Original ==
    /\ obs.op = "new" => focus = "NewUser"
    /\ \A tab \in Focus :
          (EventReturned /\ obs.key = ShortcutOf(tab)) => focus = tab

\* C1 as amended: Focus starts at the Columns tab (NewUser), and after an
\* event that returned Ok and whose key is the shortcut of tab X, is not the
\* copy shortcut and is not the shortcut of a tab tested before X (the order
\* is columns, constraints, foreign keys, indexes), Focus is X, whatever tab
\* was focused before.
C1_FocusSwitch ==
    /\ obs.op = "new" => focus = "NewUser"
    /\ \A tab \in Focus :
          ( /\ EventReturned
            /\ obs.key = ShortcutOf(tab)
            /\ obs.key # key_config.copy
            /\ \A earlier \in TestedBefore(tab) : obs.key # ShortcutOf(earlier) )
          => focus = tab

\* C1 witness: the indexes shortcut pressed while the foreign-keys tab was
\* focused moved the focus to the indexes tab
C1_Witness ==
    /\ EventReturned
    /\ obs.key = key_config.tab_indexes
    /\ obs.key # key_config.copy
    /\ FocusBefore = "NewGraph"
    /\ focus = "DelGraph"

\* C2 as stated: when the focused sub-view consumed the key of an event,
\* Focus after the event is Focus before it.
C2_NoSwitchWhenConsumed ==
    (obs.op = "event" /\ obs.sub = "Consumed") => focus = FocusBefore

\* what a sub-view holds once given the records of one provider answer
Given(records) ==
    IF records = <<>> THEN [rows |-> <<>>, headers |-> <<>>]
    ELSE [rows |-> [i \in 1..Len(records) |-> columns(records[i])],
          headers |-> fields(records[1])]

\* C3: for each kind, once the provider has answered an update's call for
\* that kind with an empty sequence, the kind's sub-view has no rows and no
\* header, whatever it held before the update.
C3_EmptyAnswerResets ==
    \A k \in Kinds :
        ( /\ obs.op = "update"
          /\ obs.resp[k].st = "ok"
          /\ obs.resp[k].records = <<>> )
        => (Contents[k].rows = <<>> /\ Contents[k].headers = <<>>)

\* C3 witness: an update returned Ok in which get_indexes answered the empty
\* sequence while the indexes sub-view held rows; it holds none now
C3_Witness ==
    /\ obs.op = "update"
    /\ obs.result = "Ok"
    /\ obs.resp["indexes"].records = <<>>
    /\ obs.pre["indexes"].rows # <<>>
    /\ del_graph = [rows |-> <<>>, headers |-> <<>>]

\* the kinds update fetches before and after kind k
Place(k) == CHOOSE i \in 1..Len(KindOrder) : KindOrder[i] = k
Before(k) == {j \in Kinds : Place(j) < Place(k)}
After(k) == {j \in Kinds : Place(j) > Place(k)}

\* C4: for each kind, once the provider has answered an update's call for
\* that kind with N > 0 records, the kind's sub-view holds exactly N rows,
\* the i-th row being the i-th record's cells, every row as long as the
\* header, and the header is the first record's field names.
C4_AnswerPopulates ==
    \A k \in Kinds :
        ( /\ obs.op = "update"
          /\ obs.resp[k].st = "ok"
          /\ obs.resp[k].records # <<>> )
        => LET records == obs.resp[k].records
               t == Contents[k]
           IN  /\ Len(t.rows) = Len(records)
               /\ \A i \in 1..Len(records) :
                     /\ t.rows[i] = columns(records[i])
                     /\ Len(t.rows[i]) = Len(t.headers)
               /\ t.headers = fields(records[1])

\* C4 witness: an update returned Ok in which get_indexes answered two
\* records while the indexes sub-view held one row; it holds two rows now
C4_Witness ==
    /\ obs.op = "update"
    /\ obs.result = "Ok"
    /\ Len(obs.resp["indexes"].records) = 2
    /\ Len(obs.pre["indexes"].rows) = 1
    /\ Len(del_graph.rows) = 2
    /\ del_graph.rows[1] # del_graph.rows[2]

\* C5: when the provider's call for kind k fails, update has returned that
\* failure, and every kind fetched before k had an Ok answer and its
\* sub-view holds what that answer gave it (the records' rows and header, or
\* nothing when the answer was empty).
C5_EarlierKindsKeepNewState ==
    \A k \in Kinds :
        (obs.op = "update" /\ obs.resp[k].st = "err")
        => /\ pc = "idle"
           /\ obs.result = "Err"
           /\ \A j \in Before(k) :
                 /\ obs.resp[j].st = "ok"
                 /\ Contents[j] = Given(obs.resp[j].records)

\* C5 witness: get_foreign_keys failed after get_columns and get_constraints
\* answered records; the constraints sub-view, empty when update began, and
\* the columns sub-view hold the new rows
C5_Witness ==
    /\ obs.op = "update"
    /\ obs.result = "Err"
    /\ obs.resp["foreign_keys"].st = "err"
    /\ obs.resp["columns"].records # <<>>
    /\ obs.resp["constraints"].records # <<>>
    /\ obs.pre["constraints"].rows = <<>>
    /\ new_user.rows # <<>>
    /\ del_user.rows # <<>>

\* the kinds update issued a provider call for
Called == {k \in Kinds : \E i \in 1..Len(obs.calls) : obs.calls[i].call = CallOf(k)}

\* C6: when the provider's call for kind k fails, update has returned that
\* failure, no call was issued for a kind after k, and the sub-views of the
\* kinds after k were not reset and hold what they held when update began.
C6_LaterKindsUntouched ==
    \A k \in Kinds :
        (obs.op = "update" /\ obs.resp[k].st = "err")
        => /\ pc = "idle"
           /\ obs.result = "Err"
           /\ \A j \in After(k) :
                 /\ j \notin Called
                 /\ j \notin obs.reset
                 /\ obs.resp[j].st = "none"
                 /\ j \in DOMAIN obs.pre
                 /\ Contents[j] = obs.pre[j]

\* C6 witness: get_constraints failed in an update that began with rows in
\* the foreign-keys and indexes sub-views; they are still there
C6_Witness ==
    /\ obs.op = "update"
    /\ obs.result = "Err"
    /\ obs.resp["constraints"].st = "err"
    /\ Len(obs.calls) = 2
    /\ new_graph.rows # <<>>
    /\ del_graph.rows # <<>>

\* the orders the four kinds can be processed in
Orders ==
    {o \in [1..Len(KindOrder) -> Kinds] : \A i, j \in DOMAIN o : o[i] = o[j] => i = j}

\* update with its four blocks run in the given order, from contents c and
\* with the provider answering answers[k] for kind k: each block resets its
\* sub-view, returns at a failed fetch and populates from an Ok answer
RECURSIVE UpdateIn(_, _, _)
UpdateIn(order, c, answers) ==
    IF order = <<>> THEN c
    ELSE LET k == Head(order)
             cleared == [c EXCEPT ![k] = TableComponent_reset(@)]
         IN  IF answers[k].st = "err" THEN cleared
             ELSE UpdateIn(Tail(order),
                           [cleared EXCEPT ![k] = Populate(@, answers[k].records,
                                                           obs.database, obs.table)],
                           answers)

\* the longest answer of the provider for kind k
Longest(k) == [i \in 1..MaxRecords |-> [kind |-> k, ord |-> i]]

\* contents the sub-views may have had when the last update began: what is
\* recorded of them, and for the rest nothing or the longest answer's rows
Priors ==
    { [k \in Kinds |-> IF k \in DOMAIN obs.pre THEN obs.pre[k]
                       ELSE IF full THEN Given(Longest(k))
                       ELSE Given(<<>>)] : full \in BOOLEAN }

\* what the provider answers for each kind: the answers it gave in the last
\* update, and any answer for the kinds it was not called for
Answers ==
    { [k \in Kinds |->
         IF obs.resp[k].st # "none" THEN obs.resp[k]
         ELSE IF n[k] > MaxRecords THEN [st |-> "err", records |-> <<>>]
         ELSE [st |-> "ok", records |-> SubSeq(Longest(k), 1, n[k])]] :
      n \in [Kinds -> 0..(MaxRecords + 1)] }

C8_ClearThenPopulate ==
    (obs.op = "update" /\ pc = "idle")
    => LET undecided == {k \in obs.reset : obs.resp[k].st # "ok"}
       IN  /\ obs.result = "Ok" => (obs.reset = Kinds /\ undecided = {})
           /\ obs.result \in {"Err", "Dropped"} =>
                 /\ Cardinality(undecided) = 1
                 /\ \A k \in undecided : Contents[k] = Given(<<>>)

\* C8 witness: get_constraints failed in an update that began with rows in
\* the constraints sub-view; that sub-view is empty, and the columns
\* sub-view was reset and populated
C8_Witness ==
    /\ obs.op = "update"
    /\ pc = "idle"
    /\ obs.result = "Err"
    /\ obs.resp["constraints"].st = "err"
    /\ obs.pre["constraints"].rows # <<>>
    /\ del_user.rows = <<>>
    /\ new_user.rows # <<>>

\* C8 as stated: whenever the caller can observe the component after an
\* update (it returned Ok, returned an error, or was dropped), every
\* sub-view that update reset has had its populate decision taken, that is,
\* its kind's fetch was answered Ok.
C8_ClearThenPopulateAtomic ==
    (obs.op = "update" /\ pc = "idle")
    => \A k \in obs.reset : obs.resp[k].st = "ok"

\* C9: when an update is dropped while suspended at the provider call for
\* kind k, nothing runs after the drop: the kinds before k hold what their
\* answers gave them, kind k's sub-view is as the reset left it, the kinds
\* after k were not called for nor reset and hold what they held when update
\* began, and the component is idle, ready for the next call.
C9_DroppedKeepsLastStep ==
    \A k \in Kinds :
        ( /\ obs.op = "update"
          /\ obs.result = "Dropped"
          /\ k \in obs.reset
          /\ obs.resp[k].st = "none" )
        => /\ pc = "idle"
           /\ Called = Before(k) \cup {k}
           /\ \A j \in Before(k) :
                 /\ obs.resp[j].st = "ok"
                 /\ Contents[j] = Given(obs.resp[j].records)
           /\ Contents[k] = Given(<<>>)
           /\ \A j \in After(k) :
                 /\ j \notin obs.reset
                 /\ j \in DOMAIN obs.pre
                 /\ Contents[j] = obs.pre[j]

\* C9 witness: an update was dropped at get_foreign_keys; the columns
\* sub-view holds the new rows, the foreign-keys sub-view lost its rows and
\* the indexes sub-view still holds its own
C9_Witness ==
    /\ obs.op = "update"
    /\ obs.result = "Dropped"
    /\ Len(obs.calls) = 3
    /\ obs.resp["columns"].records # <<>>
    /\ new_user.rows # <<>>
    /\ obs.pre["foreign_keys"].rows # <<>>
    /\ new_graph.rows = <<>>
    /\ del_graph.rows # <<>>

\* the calls of the last event that asked for the selection, and its
\* clipboard writes
Asks == SelectSeq(obs.trace, LAMBDA c : c.call = "selected_cells")
Writes == SelectSeq(obs.trace, LAMBDA c : c.call = "copy_to_clipboard")

\* C10: an event whose key is the copy shortcut and whose key the focused
\* sub-view took without error asks the sub-view for its selection once; if
\* the answer is Some(text) there is exactly one clipboard write, of that
\* text, and if it is None there is none.  An event with another key writes
\* nothing to the clipboard.
C10_CopyWritesSelection ==
    obs.op = "event" =>
        /\ (obs.key = key_config.copy /\ obs.sub # "Err") =>
              /\ Len(Asks) = 1
              /\ Asks[1].answer # <<>> =>
                    (Len(Writes) = 1 /\ Writes[1].text = Asks[1].answer[1])
              /\ Asks[1].answer = <<>> => Writes = <<>>
        /\ obs.key # key_config.copy => Writes = <<>>

\* C10 witness: a copy-shortcut event with a selected row wrote that row's
\* text to the clipboard
C10_Witness ==
    /\ obs.op = "event"
    /\ obs.key = key_config.copy
    /\ Len(Writes) = 1
    /\ Len(focused_component.rows) = 2
    /\ Writes[1].text = focused_component.rows[2]

\* C10 witness: a copy-shortcut event on a sub-view that holds rows but
\* reports no selection wrote nothing
C10_WitnessNone ==
    /\ obs.op = "event"
    /\ obs.key = key_config.copy
    /\ obs.sub # "Err"
    /\ focused_component.rows # <<>>
    /\ Writes = <<>>

\* C11: every event that returns a result value (the sub-view's event call
\* and the clipboard write, if any, did not fail) returns NotConsumed,
\* whether the key was the copy shortcut, a tab shortcut it acted on, or a
\* key the focused sub-view consumed; an event that returns something else
\* returns the error of the sub-view or of the clipboard.
C11_AlwaysNotConsumed ==
    obs.op = "event" =>
        /\ (obs.sub # "Err" /\ obs.clipboard # "Err") => obs.ret = "NotConsumed"
        /\ obs.ret # "NotConsumed" =>
              \/ obs.ret = "EventError" /\ obs.sub = "Err"
              \/ obs.ret = "ClipboardError" /\ obs.clipboard = "Err"

\* C11 witness: the sub-view consumed a tab shortcut, the event switched the
\* focus and still returned NotConsumed
C11_Witness ==
    /\ obs.op = "event"
    /\ obs.sub = "Consumed"
    /\ obs.key = key_config.tab_foreign_keys
    /\ FocusBefore = "NewUser"
    /\ focus = "NewGraph"
    /\ obs.ret = "NotConsumed"

\* C12: when the clipboard write of a copy-shortcut event fails, the event
\* returns that error (not NotConsumed), and Focus after the event is Focus
\* before it.
C12_ClipboardErrorPropagates ==
    (obs.op = "event" /\ obs.clipboard = "Err")
    => /\ obs.key = key_config.copy
       /\ obs.ret = "ClipboardError"
       /\ focus = FocusBefore

\* C12 witness: a copy-shortcut event whose key is also the indexes shortcut
\* failed at the clipboard write while the foreign-keys tab was focused
C12_Witness ==
    /\ obs.op = "event"
    /\ obs.clipboard = "Err"
    /\ Len(Writes) = 1
    /\ obs.key = key_config.tab_indexes
    /\ obs.ret = "ClipboardError"
    /\ focus = "NewGraph"

\* C13: when the focused sub-view's event call returns an error, the event
\* returns that error, nothing but the forwarding happened (the selection
\* was not asked for, nothing was written to the clipboard), and Focus is
\* Focus before the event.
C13_SubViewErrorStops ==
    (obs.op = "event" /\ obs.sub = "Err")
    => /\ obs.ret = "EventError"
       /\ Len(obs.trace) = 1
       /\ obs.trace[1].call = "event"
       /\ Asks = <<>>
       /\ Writes = <<>>
       /\ obs.clipboard = "none"
       /\ focus = FocusBefore

\* C13 witness: the foreign-keys sub-view, holding rows, failed on a key
\* that is both the copy shortcut and the indexes shortcut
C13_Witness ==
    /\ obs.op = "event"
    /\ obs.sub = "Err"
    /\ obs.ret = "EventError"
    /\ obs.key = key_config.copy
    /\ obs.key = key_config.tab_indexes
    /\ focus = "NewGraph"
    /\ new_graph.rows # <<>>

\* the provider calls of the last update that were for kind k
CallsFor(k) == SelectSeq(obs.calls, LAMBDA c : c.call = CallOf(k))

\* C14: an update that returned Ok issued exactly one provider call for
\* each of the four kinds; an update that failed, was dropped or is still
\* in flight issued at most one call per kind; every call was issued with
\* the database and the table update was called with.
C14_OneCallPerKind ==
    obs.op = "update" =>
        /\ \A k \in Kinds : Len(CallsFor(k)) <= 1
        /\ obs.result = "Ok" => \A k \in Kinds : Len(CallsFor(k)) = 1
        /\ \A i \in 1..Len(obs.calls) :
              /\ obs.calls[i].call \in {CallOf(k) : k \in Kinds}
              /\ obs.calls[i].database = obs.database
              /\ obs.calls[i].table = obs.table

\* C14 witness: an update for the table "orders" returned Ok after four
\* provider calls, the last of them get_indexes for "orders"
C14_Witness ==
    /\ obs.op = "update"
    /\ obs.result = "Ok"
    /\ obs.table = "orders"
    /\ Len(obs.calls) = 4
    /\ obs.calls[4] = [call |-> "get_indexes", database |-> "app_db", table |-> "orders"]

\* C15: every step that changes Focus is an event that returned Ok, whose
\* key is not the copy shortcut and is the shortcut of the tab Focus now
\* names.  So no step of update (begun, answered, failed or dropped), no
\* draw and no commands changes Focus, an event whose key is none of the
\* four tab shortcuts does not, and an event whose key is the copy shortcut
\* does not even when that key is a tab shortcut as well.
C15_FocusOnlyByTabShortcut ==
    [][ focus' # focus =>
          /\ obs'.op = "event"
          /\ obs'.ret = "NotConsumed"
          /\ obs'.key # key_config.copy
          /\ obs'.key = ShortcutOf(focus') ]_vars

\* C15 witness: an event whose key is both the copy shortcut and the
\* indexes shortcut returned Ok while the foreign-keys tab was focused, and
\* the foreign-keys tab is still focused
C15_Witness ==
    /\ obs.op = "event"
    /\ obs.ret = "NotConsumed"
    /\ obs.key = key_config.copy
    /\ obs.key = key_config.tab_indexes
    /\ FocusBefore = "NewGraph"
    /\ focus = "NewGraph"

\* the calls of the last event that forwarded the key to a sub-view
Forwards == SelectSeq(obs.trace, LAMBDA c : c.call = "event")

\* C16: every event forwards its key exactly once, as the first thing it
\* does, to the sub-view of the tab Focus named when the event arrived
\* (before any tab switch the key causes); no call of the event goes to
\* another sub-view, and the three sub-views Focus did not name are left
\* as they were.
C16_ForwardedToFocusedOnly ==
    [][ obs'.op = "event" =>
          /\ Len(Forwards') = 1
          /\ obs'.trace[1] = [call |-> "event", tab |-> focus, key |-> obs'.key]
          /\ \A i \in 1..Len(obs'.trace) :
                obs'.trace[i].call \in {"event", "selected_cells"}
                => obs'.trace[i].tab = focus
          /\ focus # "NewUser"  => new_user' = new_user
          /\ focus # "DelUser"  => del_user' = del_user
          /\ focus # "NewGraph" => new_graph' = new_graph
          /\ focus # "DelGraph" => del_graph' = del_graph ]_vars

\* C16 witness: the columns shortcut pressed while the constraints tab was
\* focused went to the constraints sub-view, and the columns tab is focused
C16_Witness ==
    /\ obs.op = "event"
    /\ obs.key = key_config.tab_columns
    /\ obs.trace = << [call |-> "event", tab |-> "DelUser", key |-> obs.key] >>
    /\ focus = "NewUser"

\* C17: in every state, during and after updates and events, each sub-view
\* is empty with no header, or its rows and its header are those of one
\* non-empty provider answer for its own kind, and then every row is as
\* long as the header.
C17_ViewsConsistent ==
    \A k \in Kinds :
        \/ Contents[k] = [rows |-> <<>>, headers |-> <<>>]
        \/ /\ \E records \in Responses(k) \ {<<>>} : Contents[k] = Given(records)
           /\ \A i \in 1..Len(Contents[k].rows) :
                 Len(Contents[k].rows[i]) = Len(Contents[k].headers)

\* C17 witness: after updates and an event, the columns sub-view holds two
\* rows of two cells, the constraints sub-view one row of one cell, the
\* foreign-keys sub-view is empty and the indexes sub-view holds rows
C17_Witness ==
    /\ obs.op = "event"
    /\ Len(new_user.rows) = 2
    /\ Len(del_user.rows) = 1
    /\ new_graph.rows = <<>>
    /\ del_graph.rows # <<>>
    /\ Len(new_user.headers) = 2
    /\ Len(del_user.headers) = 1

\* the kind whose provider call ended the last update without an answer of
\* records: the call failed, or update was dropped while it was pending
Unanswered ==
    {k \in Kinds : \/ obs.resp[k].st = "err"
                   \/ /\ obs.result = "Dropped"
                      /\ CallsFor(k) # <<>>
                      /\ obs.resp[k].st = "none"}

\* C18: when the provider call for kind k failed, or update was dropped
\* while that call was pending, the sub-view of kind k was reset before the
\* call and has no rows and no header, whatever it held when update began.
C18_FailedKindLeftReset ==
    (obs.op = "update" /\ pc = "idle")
    => \A k \in Unanswered :
          /\ k \in obs.reset
          /\ Contents[k].rows = <<>>
          /\ Contents[k].headers = <<>>

\* C18 witness: get_columns failed in an update that began with two rows in
\* the columns sub-view; the sub-view holds none now
C18_Witness ==
    /\ obs.op = "update"
    /\ pc = "idle"
    /\ obs.resp["columns"].st = "err"
    /\ Len(obs.pre["columns"].rows) = 2
    /\ new_user = [rows |-> <<>>, headers |-> <<>>]

\* the place in the last event's trace of its first call of the given name
\* (0 when there is none)
PlaceOf(call) ==
    IF \E i \in 1..Len(obs.trace) : obs.trace[i].call = call
    THEN CHOOSE i \in 1..Len(obs.trace) :
            /\ obs.trace[i].call = call
            /\ \A j \in 1..(i - 1) : obs.trace[j].call # call
    ELSE 0

\* C19: in an event that reads the selection, the key was forwarded to the
\* focused sub-view before the selection was read, and the sub-view asked
\* is the one the key went to; a clipboard write comes after the read and
\* its text is the answer the sub-view gave then, after it had the key.
C19_ForwardedBeforeSelectionRead ==
    (obs.op = "event" /\ PlaceOf("selected_cells") > 0)
    => /\ obs.key = key_config.copy
       /\ PlaceOf("event") > 0
       /\ PlaceOf("event") < PlaceOf("selected_cells")
       /\ obs.trace[PlaceOf("selected_cells")].tab = obs.trace[PlaceOf("event")].tab
       /\ PlaceOf("copy_to_clipboard") > 0 =>
             /\ PlaceOf("selected_cells") < PlaceOf("copy_to_clipboard")
             /\ obs.trace[PlaceOf("selected_cells")].answer
                  = << obs.trace[PlaceOf("copy_to_clipboard")].text >>

\* C19 witness: the sub-view consumed the copy key, then answered with a
\* selected row, and that row's text was written to the clipboard
C19_Witness ==
    /\ obs.op = "event"
    /\ obs.sub = "Consumed"
    /\ Len(obs.trace) = 3
    /\ obs.trace[1].call = "event"
    /\ obs.trace[2].call = "selected_cells"
    /\ obs.trace[2].answer # <<>>
    /\ obs.trace[3] = [call |-> "copy_to_clipboard", text |-> obs.trace[2].answer[1]]
    /\ obs.clipboard = "Ok"

\* the labels of the Columns, Constraints, Foreign Keys and Indexes tabs
TabLabels == <<"tab_new_user", "tab_del_user", "tab_new_graph", "tab_del_graph">>

\* C20: every draw renders the four tab labels in the order Columns,
\* Constraints, Foreign Keys, Indexes, highlights exactly one of them, the
\* one of the tab Focus names, and draws one sub-view, the one Focus names,
\* with the focused flag its caller gave; no other sub-view is drawn.
C20_DrawShowsFocus ==
    obs.op = "draw" =>
        /\ [i \in 1..Len(obs.tab_list) |-> obs.tab_list[i].label] = TabLabels
        /\ \A i \in 1..Len(obs.tab_list) :
              obs.tab_list[i].highlighted <=> TabOrder[i] = focus
        /\ Cardinality({i \in 1..Len(obs.tab_list) : obs.tab_list[i].highlighted}) = 1
        /\ obs.trace = << [call |-> "draw", tab |-> focus, focused |-> obs.focused] >>

\* C20 witness: a draw of the unfocused widget while the foreign-keys tab
\* was focused highlighted the third label and drew the foreign-keys
\* sub-view, holding rows, as unfocused
C20_Witness ==
    /\ obs.op = "draw"
    /\ ~obs.focused
    /\ focus = "NewGraph"
    /\ obs.tab_list[3].highlighted
    /\ obs.trace[1].tab = "NewGraph"
    /\ ~obs.trace[1].focused
    /\ new_graph.rows # <<>>
====
